---- MODULE Spec2Model ----
(***************************************************************************)
(* gz-mujoco: conversion between MJCF (nested body tree, inline geoms) and *)
(* SDFormat (links, joints, collision/visual geometries).                  *)
(*                                                                         *)
(*   mjcf_to_sdformat/converters/geometry.py  MJCF geom -> sdf.Geometry,   *)
(*                                            sdf.Visual, sdf.Collision    *)
(*   mjcf_to_sdformat/converters/world.py     MJCF worldbody -> sdf.World  *)
(*   sdformat_mjcf/converters/geometry.py     sdf.Geometry -> MJCF geom    *)
(*                                                                         *)
(* Three specifications share the variables:                               *)
(*   Spec       calls of mjcf_worldbody_to_sdf (one call = one run)        *)
(*   SpecGeom   calls of mjcf_visual_to_sdf / mjcf_collision_to_sdf        *)
(*   SpecShape  calls of mjcf_geom_to_sdf, add_geometry, add_collision     *)
(***************************************************************************)
EXTENDS Integers, Sequences, FiniteSets, TLC

VARIABLES
    VISUAL_NUMBER,      \* geometry.py:22, module global
    COLLISION_NUMBER,   \* geometry.py:23, module global
    run,                \* number of conversion runs begun in this process
    emitted,            \* names set on visuals/collisions in the current run
    world,              \* the sdf.World handed to mjcf_worldbody_to_sdf
    mjcf_body,          \* the MJCF body handed to add_geometry: its geoms
    call                \* the last call: operation, argument, outcome

vars == <<VISUAL_NUMBER, COLLISION_NUMBER, run, emitted, world, mjcf_body, call>>

(***************************************************************************)
(* Python values.  An optional value is a sequence of length at most one:  *)
(* None is the empty one.                                                  *)
(***************************************************************************)
None == <<>>

Some(x) == <<x>>

The(o) == o[1]

\* F(v), with v evaluated once
Bind(v, F(_)) == CHOOSE r \in {F(x) : x \in {v}} : TRUE

(***************************************************************************)
(* Numbers.  Python floats and ignition.math doubles are binary floating   *)
(* point: a number is m * 2^e with m odd (or zero), kept normalised, so    *)
(* that scaling by 2 and by 1/2 changes the exponent as it does in IEEE    *)
(* arithmetic.  The range of the exponent is not bounded here.             *)
(***************************************************************************)
RECURSIVE Norm(_, _)
Norm(m, e) ==
    IF m = 0 THEN [m |-> 0, e |-> 0]
    ELSE IF m % 2 = 0 THEN Norm(m \div 2, e + 1)
    ELSE [m |-> m, e |-> e]

Num(n) == Norm(n, 0)

Half == [m |-> 1, e |-> -1]

Min(a, b) == IF a <= b THEN a ELSE b

\* x as an integer count of units of 2^e0, for e0 <= x.e
Units(x, e0) == x.m * 2 ^ (x.e - e0)

NumMul(x, y) == Norm(x.m * y.m, x.e + y.e)

NumAdd(x, y) ==
    LET e0 == Min(x.e, y.e)
    IN Norm(Units(x, e0) + Units(y, e0), e0)

NumSub(x, y) ==
    LET e0 == Min(x.e, y.e)
    IN Norm(Units(x, e0) - Units(y, e0), e0)

\* x * 2 and x / 2.0
NumTimes2(x) == NumMul(x, Num(2))

\* a slip: the size is passed on without halving it
NumDiv2_unscaled(x) == x

NumDiv2(x) == NumMul(x, Half)

(***************************************************************************)
(* ignition.math vectors: sequences of numbers.                            *)
(***************************************************************************)
\* the resolution of a rounded result (a square root): 2^-SqrtFracBits
SqrtFracBits == 3

RECURSIVE ISqrt(_)
\* floor of the square root of a natural number
ISqrt(n) ==
    IF n < 2 THEN n
    ELSE LET s == 2 * ISqrt(n \div 4)
         IN IF (s + 1) * (s + 1) <= n THEN s + 1 ELSE s

\* sqrt(x), x >= 0, rounded to the nearest multiple of 2^-SqrtFracBits
NumSqrt(x) ==
    LET n == Units(x, -(2 * SqrtFracBits))
        s == ISqrt(n)
    IN Norm(IF n - s * s <= s THEN s ELSE s + 1, -SqrtFracBits)

Vector3d(x, y, z) == <<x, y, z>>

Vector2d(x, y) == <<x, y>>

\* su.list_to_vec3d(list)
list_to_vec3d(l) == Vector3d(l[1], l[2], l[3])

\* su.vec3d_to_list(v), su.vec2d_to_list(v)
vec3d_to_list(v) == <<v[1], v[2], v[3]>>

vec2d_to_list(v) == <<v[1], v[2]>>

\* Vector * 2 and Vector / 2.0, component by component
VecTimes2(v) == [i \in DOMAIN v |-> NumTimes2(v[i])]

VecDiv2(v) == [i \in DOMAIN v |-> NumDiv2(v[i])]

\* a slip: the distance in the x-y plane
Distance_planar(v1, v2) ==
    LET dx == NumSub(v1[1], v2[1])
        dy == NumSub(v1[2], v2[2])
    IN NumSqrt(NumAdd(NumMul(dx, dx), NumMul(dy, dy)))

\* Vector3d.distance(v2)
Distance(v1, v2) ==
    LET dx == NumSub(v1[1], v2[1])
        dy == NumSub(v1[2], v2[2])
        dz == NumSub(v1[3], v2[3])
    IN NumSqrt(NumAdd(NumAdd(NumMul(dx, dx), NumMul(dy, dy)), NumMul(dz, dz)))

(***************************************************************************)
(* sdf.Geometry: a type tag and one optional member per shape.             *)
(***************************************************************************)
Geometry ==
    [type |-> "EMPTY", box |-> None, capsule |-> None, cylinder |-> None,
     ellipsoid |-> None, plane |-> None, sphere |-> None, mesh |-> None]

\* the outcome of a call: it returns ret, or raises
Return(v) == [raised |-> FALSE, ret |-> v, error |-> ""]

Raise(what) == [raised |-> TRUE, ret |-> None, error |-> what]

(***************************************************************************)
(* mjcf_to_sdformat/converters/geometry.py                                 *)
(* An MJCF geom element: [name, type, size, fromto, pos, euler, group].    *)
(* name and type are optional strings, size a list of numbers (Python      *)
(* index i is i+1 here), fromto an optional list of six numbers.           *)
(***************************************************************************)
\* the length of a capsule or cylinder, lines 48-54 and 60-66
SegmentLength(geom) ==
    IF geom.fromto = None
    THEN NumTimes2(geom.size[2])
    ELSE LET v1 == Vector3d(The(geom.fromto)[1], The(geom.fromto)[2], The(geom.fromto)[3])
             v2 == Vector3d(The(geom.fromto)[4], The(geom.fromto)[5], The(geom.fromto)[6])
         IN Distance(v1, v2)

mjcf_geom_to_sdf(geom) ==
    LET sdf_geometry == Geometry
    IN IF geom.type = Some("box")
       THEN LET box == [size |-> VecTimes2(list_to_vec3d(geom.size))]
            IN Return([sdf_geometry EXCEPT !.box = Some(box), !.type = "BOX"])
       ELSE IF geom.type = Some("capsule")
       THEN LET capsule == [radius |-> geom.size[1], length |-> SegmentLength(geom)]
            IN Return([sdf_geometry EXCEPT !.capsule = Some(capsule), !.type = "CAPSULE"])
       ELSE IF geom.type = Some("cylinder")
       THEN LET cylinder == [radius |-> geom.size[1], length |-> SegmentLength(geom)]
            IN Return([sdf_geometry EXCEPT !.cylinder = Some(cylinder), !.type = "CYLINDER"])
       ELSE IF geom.type = Some("ellipsoid")
       THEN LET ellipsoid == [radii |-> list_to_vec3d(geom.size)]
            IN Return([sdf_geometry EXCEPT !.ellipsoid = Some(ellipsoid), !.type = "ELLIPSOID"])
       ELSE IF geom.type = Some("sphere")
       THEN LET sphere == [radius |-> geom.size[1]]
            IN Return([sdf_geometry EXCEPT !.sphere = Some(sphere), !.type = "SPHERE"])
       ELSE IF geom.type = Some("plane")
       THEN LET plane == [size |-> Vector2d(NumTimes2(geom.size[1]), NumTimes2(geom.size[2]))]
            IN Return([sdf_geometry EXCEPT !.plane = Some(plane), !.type = "PLANE"])
       ELSE Raise("RuntimeError: Encountered unsupported shape type")

\* str(n) of a natural number: its decimal digits
Digit(d) ==
    CASE d = 0 -> "0" [] d = 1 -> "1" [] d = 2 -> "2" [] d = 3 -> "3"
      [] d = 4 -> "4" [] d = 5 -> "5" [] d = 6 -> "6" [] d = 7 -> "7"
      [] d = 8 -> "8" [] d = 9 -> "9"

RECURSIVE str(_)
str(n) == IF n < 10 THEN Digit(n) ELSE str(n \div 10) \o Digit(n % 10)

\* sdf.Visual() and sdf.Collision(): a name and a geometry
Visual == [name |-> "", geometry |-> None]

Collision == [name |-> "", geometry |-> None]

\* a slip: the global is read and never advanced
mjcf_visual_to_sdf_stuck(geom, vn) ==
    LET name == IF geom.name # None
                THEN "visual_" \o The(geom.name)
                ELSE "unnamed_visual_" \o str(vn)
        visual == [Visual EXCEPT !.name = name]
        sdf_geometry == mjcf_geom_to_sdf(geom)
        outcome == IF sdf_geometry.raised THEN sdf_geometry
                   ELSE IF sdf_geometry.ret # None
                   THEN Return([visual EXCEPT !.geometry = sdf_geometry.ret])
                   ELSE Return(None)
    IN [outcome |-> outcome, VISUAL_NUMBER |-> vn, name |-> name]

\* mjcf_visual_to_sdf(geom) with the global VISUAL_NUMBER as vn: the outcome,
\* the global afterwards, and the name set on the visual (set before the
\* shape is converted, so also when the conversion raises)
mjcf_visual_to_sdf(geom, vn) ==
    LET name == IF geom.name # None
                THEN "visual_" \o The(geom.name)
                ELSE "unnamed_visual_" \o str(vn)
        vn1 == IF geom.name # None THEN vn ELSE vn + 1
        visual == [Visual EXCEPT !.name = name]
        sdf_geometry == mjcf_geom_to_sdf(geom)
        outcome == IF sdf_geometry.raised THEN sdf_geometry
                   ELSE IF sdf_geometry.ret # None
                   THEN Return([visual EXCEPT !.geometry = sdf_geometry.ret])
                   ELSE Return(None)
    IN [outcome |-> outcome, VISUAL_NUMBER |-> vn1, name |-> name]

\* mjcf_collision_to_sdf(geom) with the global COLLISION_NUMBER as cn
mjcf_collision_to_sdf(geom, cn) ==
    LET name == IF geom.name # None
                THEN "collision_" \o The(geom.name)
                ELSE "unnamed_collision_" \o str(cn)
        cn1 == IF geom.name # None THEN cn ELSE cn + 1
        col == [Collision EXCEPT !.name = name]
        sdf_geometry == mjcf_geom_to_sdf(geom)
        outcome == IF sdf_geometry.raised THEN sdf_geometry
                   ELSE IF sdf_geometry.ret # None
                   THEN Return([col EXCEPT !.geometry = sdf_geometry.ret])
                   ELSE Return(None)
    IN [outcome |-> outcome, COLLISION_NUMBER |-> cn1, name |-> name]

(***************************************************************************)
(* sdformat_mjcf/converters/geometry.py                                    *)
(* A pose is [pos, rot]: a position and Euler angles in units of pi/12     *)
(* radians.  An object reference is the object or None.                    *)
(***************************************************************************)
COLLISION_GEOM_GROUP == 3

VISUAL_GEOM_GROUP == 0

\* su.quat_to_euler_list(rot): Euler angles in degrees
quat_to_euler_list(rot) == [i \in DOMAIN rot |-> Num(15 * rot[i])]

\* su.pose_resolver(sem_pose): the pose resolved to absolute coordinates
pose_resolver(sem_pose) == sem_pose.raw_pose

\* body.add("geom", name=, pos=, euler=): a new geom element, other
\* attributes unset
NewGeom(name, pos, euler) ==
    [name |-> Some(name), type |-> None, size |-> None, fromto |-> None,
     pos |-> Some(pos), euler |-> Some(euler), group |-> None]

\* a slip: a mesh is skipped without an error
MeshShape_skipped == Return(None)

\* the mesh branch, lines 75-76
MeshShape == Raise("RuntimeError: Meshes are not yet supported")

\* add_geometry(body, name, pose, sdf_geom) on a body holding the geoms b:
\* the outcome and the body's geoms afterwards.  The geom returned is the
\* last element of the body.
add_geometry(b, name, pose, sdf_geom) ==
    IF sdf_geom = None THEN [outcome |-> Return(None), body |-> b]
    ELSE
    LET geom == NewGeom(name, vec3d_to_list(pose.pos), quat_to_euler_list(pose.rot))
        b1 == Append(b, geom)
        Done(type, size) ==
            LET g == [geom EXCEPT !.type = Some(type), !.size = size]
            IN [outcome |-> Return(g), body |-> Append(b, g)]
    IN IF sdf_geom.box # None
       THEN Done("box", vec3d_to_list(VecDiv2(The(sdf_geom.box).size)))
       ELSE IF sdf_geom.capsule # None
       THEN Done("capsule", <<The(sdf_geom.capsule).radius,
                              NumDiv2(The(sdf_geom.capsule).length)>>)
       ELSE IF sdf_geom.cylinder # None
       THEN Done("cylinder", <<The(sdf_geom.cylinder).radius,
                               NumDiv2(The(sdf_geom.cylinder).length)>>)
       ELSE IF sdf_geom.ellipsoid # None
       THEN Done("ellipsoid", vec3d_to_list(The(sdf_geom.ellipsoid).radii))
       ELSE IF sdf_geom.plane # None
       THEN Done("plane", vec2d_to_list(VecDiv2(The(sdf_geom.plane).size)) \o <<Num(0)>>)
       ELSE IF sdf_geom.sphere # None
       THEN Done("sphere", <<The(sdf_geom.sphere).radius>>)
       ELSE IF sdf_geom.mesh # None
       THEN [outcome |-> MeshShape, body |-> b1]
       ELSE [outcome |-> Raise("RuntimeError: Encountered unsupported shape type"),
             body |-> b1]

\* add_collision(body, col): col is [name, semantic_pose, geometry]
add_collision(b, col) ==
    LET sem_pose == col.semantic_pose
        pose == pose_resolver(sem_pose)
        r == add_geometry(b, col.name, pose, col.geometry)
    IN IF r.outcome.raised THEN r
       ELSE IF r.outcome.ret = None
       THEN [outcome |-> Raise("AttributeError: 'NoneType' object has no attribute 'group'"),
             body |-> r.body]
       ELSE LET geom == [r.outcome.ret EXCEPT !.group = Some(COLLISION_GEOM_GROUP)]
            IN [outcome |-> Return(geom),
                body |-> [r.body EXCEPT ![Len(r.body)] = geom]]

(***************************************************************************)
(* mjcf_to_sdformat/converters/world.py                                    *)
(* An MJCF body element: [name, joint, freejoint, geom, camera, body]; the *)
(* worldbody has light as well and no joints.  A joint element is          *)
(* [name, type].  The converters of links, joints, lights and sensors are  *)
(* other modules of the package; sdf.World, sdf.Model and sdf.Link keep    *)
(* what is added to them in the order of the calls.                        *)
(***************************************************************************)
\* an outcome together with the globals and the names set on the way
Walked(outcome, vn, cn, names) ==
    [outcome |-> outcome, VISUAL_NUMBER |-> vn, COLLISION_NUMBER |-> cn, names |-> names]

RECURSIVE ConvertGeoms(_, _)
\* link.py: the geoms of a body, each of the visual group through
\* mjcf_visual_to_sdf, each of the collision group through
\* mjcf_collision_to_sdf; acc carries the link so far
ConvertGeoms(geoms, acc) ==
    LET Step(w) ==
          IF geoms = <<>> \/ w.outcome.raised THEN w
          ELSE LET geom == Head(geoms)
                   link == w.outcome.ret
                   Visual1(r) ==
                       Walked(IF r.outcome.raised THEN r.outcome
                              ELSE IF r.outcome.ret # None
                              THEN Return([link EXCEPT
                                      !.visuals = Append(@, r.outcome.ret)])
                              ELSE Return(link),
                              r.VISUAL_NUMBER, w.COLLISION_NUMBER,
                              Append(w.names, [role |-> "visual", declared |-> geom.name,
                                               name |-> r.name,
                                               raised |-> r.outcome.raised]))
                   Collision1(r) ==
                       Walked(IF r.outcome.raised THEN r.outcome
                              ELSE IF r.outcome.ret # None
                              THEN Return([link EXCEPT
                                      !.collisions = Append(@, r.outcome.ret)])
                              ELSE Return(link),
                              w.VISUAL_NUMBER, r.COLLISION_NUMBER,
                              Append(w.names, [role |-> "collision",
                                               declared |-> geom.name, name |-> r.name,
                                               raised |-> r.outcome.raised]))
               IN IF geom.group = Some(VISUAL_GEOM_GROUP)
                  THEN ConvertGeoms(Tail(geoms),
                           Bind(mjcf_visual_to_sdf(geom, w.VISUAL_NUMBER), Visual1))
                  ELSE ConvertGeoms(Tail(geoms),
                           Bind(mjcf_collision_to_sdf(geom, w.COLLISION_NUMBER),
                                Collision1))
    IN Bind(acc, Step)

\* link.mjcf_body_to_sdf(body, physics, body_parent_name, modifiers): the
\* link of a body, named after it
mjcf_body_to_sdf(b, body_parent_name, vn, cn, names) ==
    ConvertGeoms(b.geom,
                 Walked(Return([name |-> b.name, visuals |-> <<>>,
                                collisions |-> <<>>, sensors |-> <<>>]),
                        vn, cn, names))

\* sensor.mjcf_camera_sensor_to_sdf(camera)
mjcf_camera_sensor_to_sdf(camera) == [name |-> camera.name, type |-> "CAMERA"]

\* light.mjcf_light_to_sdf(light)
mjcf_light_to_sdf(light) == [name |-> light.name]

\* the camera loops, lines 60-63 and 91-94
AddSensors(link, cameras) ==
    [link EXCEPT !.sensors =
        @ \o [i \in 1..Len(cameras) |-> mjcf_camera_sensor_to_sdf(cameras[i])]]

\* joint.mjcf_joint_to_sdf(joint, parent_name, child_name)
mjcf_joint_to_sdf(joint, parent_name, child_name) ==
    [source |-> Some(joint.name),
     type |-> IF joint.type = "slide" THEN "PRISMATIC" ELSE "REVOLUTE",
     parent |-> parent_name, child |-> child_name]

\* joint.add_fixed_joint(parent_name, child_name)
add_fixed_joint(parent_name, child_name) ==
    [source |-> None, type |-> "FIXED", parent |-> parent_name, child |-> child_name]

\* the joint loop, lines 96-103
AddJoints(model, joints, body_parent_name, name) ==
    [model EXCEPT !.joints =
        @ \o [i \in 1..Len(joints) |->
                mjcf_joint_to_sdf(joints[i], body_parent_name, name)]]

\* a slip: the free joint is not looked at
NeedsFixedJoint_any(b) == Len(b.joint) = 0

\* line 104
NeedsFixedJoint(b) == Len(b.joint) = 0 /\ b.freejoint = None

RECURSIVE iterate_bodies_siblings_first(_, _, _)
\* a slip: the bodies of one level are all emitted before their children
iterate_bodies_siblings_first(input_body, acc, body_parent_name) ==
    LET Step(w) ==
          IF input_body = <<>> \/ w.outcome.raised THEN w
          ELSE
          LET b == Head(input_body)
              model == w.outcome.ret
              Emit(l) ==
                  IF l.outcome.raised THEN l
                  ELSE
                  LET link == AddSensors(l.outcome.ret, b.camera)
                      model1 == AddJoints(model, b.joint, body_parent_name, b.name)
                      model2 == IF NeedsFixedJoint(b)
                                THEN [model1 EXCEPT !.joints =
                                        Append(@, add_fixed_joint(body_parent_name,
                                                                  b.name))]
                                ELSE model1
                      model3 == [model2 EXCEPT !.links = Append(@, link)]
                  IN iterate_bodies_siblings_first(b.body,
                         iterate_bodies_siblings_first(Tail(input_body),
                             Walked(Return(model3), l.VISUAL_NUMBER,
                                    l.COLLISION_NUMBER, l.names),
                             body_parent_name),
                         Some(b.name))
          IN Bind(mjcf_body_to_sdf(b, body_parent_name, w.VISUAL_NUMBER,
                                   w.COLLISION_NUMBER, w.names), Emit)
    IN Bind(acc, Step)

RECURSIVE iterate_bodies_parent_kept(_, _, _)
\* a slip: the recursion hands down the parent name it was given
iterate_bodies_parent_kept(input_body, acc, body_parent_name) ==
    LET Step(w) ==
          IF input_body = <<>> \/ w.outcome.raised THEN w
          ELSE
          LET b == Head(input_body)
              model == w.outcome.ret
              Emit(l) ==
                  IF l.outcome.raised THEN l
                  ELSE
                  LET link == AddSensors(l.outcome.ret, b.camera)
                      model1 == AddJoints(model, b.joint, body_parent_name, b.name)
                      model2 == IF NeedsFixedJoint(b)
                                THEN [model1 EXCEPT !.joints =
                                        Append(@, add_fixed_joint(body_parent_name,
                                                                  b.name))]
                                ELSE model1
                      model3 == [model2 EXCEPT !.links = Append(@, link)]
                  IN iterate_bodies_parent_kept(Tail(input_body),
                         iterate_bodies_parent_kept(b.body,
                             Walked(Return(model3), l.VISUAL_NUMBER,
                                    l.COLLISION_NUMBER, l.names),
                             body_parent_name),
                         body_parent_name)
          IN Bind(mjcf_body_to_sdf(b, body_parent_name, w.VISUAL_NUMBER,
                                   w.COLLISION_NUMBER, w.names), Emit)
    IN Bind(acc, Step)

RECURSIVE iterate_bodies(_, _, _)
\* iterate_bodies(input_body, model, body_parent_name), lines 83-111; acc
\* carries the model, the globals and the names set so far
iterate_bodies(input_body, acc, body_parent_name) ==
    LET Step(w) ==
          IF input_body = <<>> \/ w.outcome.raised THEN w
          ELSE
          LET b == Head(input_body)
              model == w.outcome.ret
              Emit(l) ==
                  IF l.outcome.raised THEN l
                  ELSE
                  LET link == AddSensors(l.outcome.ret, b.camera)
                      model1 == AddJoints(model, b.joint, body_parent_name, b.name)
                      model2 == IF NeedsFixedJoint(b)
                                THEN [model1 EXCEPT !.joints =
                                        Append(@, add_fixed_joint(body_parent_name,
                                                                  b.name))]
                                ELSE model1
                      model3 == [model2 EXCEPT !.links = Append(@, link)]
                  IN iterate_bodies(Tail(input_body),
                         iterate_bodies(b.body,
                             Walked(Return(model3), l.VISUAL_NUMBER,
                                    l.COLLISION_NUMBER, l.names),
                             Some(b.name)),
                         body_parent_name)
          IN Bind(mjcf_body_to_sdf(b, body_parent_name, w.VISUAL_NUMBER,
                                   w.COLLISION_NUMBER, w.names), Emit)
    IN Bind(acc, Step)

\* sdf.Model()
Model == [name |-> "", static |-> FALSE, links |-> <<>>, joints |-> <<>>]

\* the system plugins, lines 115-124
Plugins ==
    << <<"ignition-gazebo-physics-system", "ignition::gazebo::systems::Physics">>,
       <<"ignition-gazebo-sensors-system", "ignition::gazebo::systems::Sensors">>,
       <<"ignition-gazebo-user-commands-system",
         "ignition::gazebo::systems::UserCommands">>,
       <<"ignition-gazebo-scene-broadcaster-system",
         "ignition::gazebo::systems::SceneBroadcaster">> >>

RECURSIVE UniqueFrom(_, _, _)
UniqueFrom(used, name, index) ==
    IF (name \o "_" \o str(index)) \notin used
    THEN name \o "_" \o str(index)
    ELSE UniqueFrom(used, name, index + 1)

\* su.find_unique_name(worldbody, "geom", name): name, or name with a number
\* appended, whichever no geom of the worldbody is called
find_unique_name(worldbody, name) ==
    LET used == {The(worldbody.geom[i].name) :
                    i \in {j \in 1..Len(worldbody.geom) : worldbody.geom[j].name # None}}
    IN IF name \notin used THEN name ELSE UniqueFrom(used, name, 0)

\* the option block, lines 71-81
SetOptions(w, option) ==
    IF option = None THEN w
    ELSE LET o == The(option)
             w1 == IF o.flag.gravity = "disable"
                   THEN [w EXCEPT !.gravity = Some(Vector3d(Num(0), Num(0), Num(0)))]
                   ELSE IF o.gravity # None
                   THEN [w EXCEPT !.gravity = Some(list_to_vec3d(The(o.gravity)))]
                   ELSE w
             w2 == IF o.magnetic # None
                   THEN [w1 EXCEPT !.magnetic_field = Some(list_to_vec3d(The(o.magnetic)))]
                   ELSE w1
         IN IF o.wind # None
            THEN [w2 EXCEPT !.wind_linear_velocity = Some(list_to_vec3d(The(o.wind)))]
            ELSE w2

\* a slip: the model is not made static
AddStaticLink_movable(model_static, link) ==
    [model_static EXCEPT !.links = Append(@, link)]

\* model_static.add_link(link); model_static.set_static(True), lines 65-66
AddStaticLink(model_static, link) ==
    [model_static EXCEPT !.links = Append(@, link), !.static = TRUE]

\* mjcf_worldbody_to_sdf(mjcf_root, physics, world, export_world_plugins)
\* with the globals as vn and cn: the world and, in walked, the outcome, the
\* globals afterwards and the names set
mjcf_worldbody_to_sdf(mjcf_root, w, export_world_plugins, vn, cn) ==
    LET model == [Model EXCEPT !.name = IF mjcf_root.model # None
                                        THEN The(mjcf_root.model) ELSE "model"]
        model_static == Model
        lights == mjcf_root.worldbody.light
        world1 == [w EXCEPT !.lights =
                     @ \o [i \in 1..Len(lights) |-> mjcf_light_to_sdf(lights[i])]]
        Static(l) ==
            IF l.outcome.raised THEN [world |-> world1, walked |-> l]
            ELSE
            LET static1 == [model_static EXCEPT
                              !.name = find_unique_name(mjcf_root.worldbody, "static")]
                link == AddSensors(l.outcome.ret, mjcf_root.worldbody.camera)
                static2 == AddStaticLink(static1, link)
                world2 == [world1 EXCEPT !.models = Append(@, static2)]
                world3 == SetOptions(world2, mjcf_root.option)
                Finish(walked) ==
                    IF walked.outcome.raised THEN [world |-> world3, walked |-> walked]
                    ELSE LET world4 == IF export_world_plugins
                                       THEN [world3 EXCEPT !.plugins = @ \o Plugins]
                                       ELSE world3
                         IN [world |-> [world4 EXCEPT
                                          !.models = Append(@, walked.outcome.ret)],
                             walked |-> [walked EXCEPT !.outcome = Return(None)]]
            IN Bind(iterate_bodies(mjcf_root.worldbody.body,
                                   Walked(Return(model), l.VISUAL_NUMBER,
                                          l.COLLISION_NUMBER, l.names),
                                   None),
                    Finish)
    IN Bind(mjcf_body_to_sdf(mjcf_root.worldbody, None, vn, cn, <<>>), Static)

(***************************************************************************)
(* State shared by the specifications.                                     *)
(***************************************************************************)
World == [models |-> <<>>, lights |-> <<>>, plugins |-> <<>>,
          gravity |-> None, magnetic_field |-> None, wind_linear_velocity |-> None]

\* call: the operation, its argument, the argument of the call whose result
\* that argument is (from), the body handed to it (before), and the outcome
NoCall == [op |-> "", arg |-> None, from |-> None, before |-> <<>>,
           raised |-> FALSE, ret |-> None, error |-> ""]

Called(op, arg, from, before, outcome) ==
    [op |-> op, arg |-> arg, from |-> from, before |-> before,
     raised |-> outcome.raised, ret |-> outcome.ret, error |-> outcome.error]

Init ==
    /\ VISUAL_NUMBER = 0
    /\ COLLISION_NUMBER = 0
    /\ run = 0
    /\ emitted = <<>>
    /\ world = World
    /\ mjcf_body = <<>>
    /\ call = NoCall

(***************************************************************************)
(* Inputs of the shape conversions.                                        *)
(***************************************************************************)
\* an MJCF geom element as parsed: no pose, no group
Geom(name, type, size, fromto) ==
    [name |-> name, type |-> type, size |-> size, fromto |-> fromto,
     pos |-> None, euler |-> None, group |-> None]

Points ==
    { <<Num(0), Num(0), Num(0)>>, <<Num(3), Num(4), Num(0)>>,
      <<Norm(3, -1), Num(-2), Norm(-1, -1)>> }

Sizes3 ==
    { <<Num(1), Num(1), Num(1)>>, <<Num(1), Num(2), Num(3)>>,
      <<Norm(1, -1), Norm(3, -2), Num(5)>> }

Sizes2 == { <<Num(1), Num(2)>>, <<Norm(1, -1), Norm(3, -1)>> }

Sizes1 == { <<Num(1)>>, <<Norm(3, -2)>> }

MjcfGeoms ==
    {Geom(None, Some("box"), sz, None) : sz \in Sizes3}
    \cup {Geom(None, Some(t), sz, None) : t \in {"capsule", "cylinder"}, sz \in Sizes2}
    \cup {Geom(None, Some(t[1]), t[2], Some(t[3] \o t[4])) :
            t \in {"capsule", "cylinder"}
                  \X {<<Norm(3, -2)>>, <<Num(1), Num(2)>>} \X Points \X Points}
    \cup {Geom(None, Some("ellipsoid"), <<Num(1), Num(2), Num(3)>>, None)}
    \cup {Geom(None, Some("sphere"), sz, None) : sz \in Sizes1}
    \cup {Geom(None, Some("plane"), sz \o <<Num(1)>>, None) : sz \in Sizes2}
    \cup {Geom(None, t, <<Num(1), Num(1), Num(1)>>, None) :
            t \in {Some("mesh"), Some("hfield"), Some("Box"), None}}

\* sdf.Geometry objects holding one shape, or none (an empty or heightmap
\* geometry)
SdfGeoms ==
    {[Geometry EXCEPT !.type = "BOX", !.box = Some([size |-> sz])] :
        sz \in Sizes3 \cup {<<Num(2), Num(2), Num(2)>>}}
    \cup {[Geometry EXCEPT !.type = "CAPSULE",
                           !.capsule = Some([radius |-> sz[1], length |-> sz[2]])] :
            sz \in Sizes2}
    \cup {[Geometry EXCEPT !.type = "CYLINDER",
                           !.cylinder = Some([radius |-> sz[1], length |-> sz[2]])] :
            sz \in Sizes2}
    \cup {[Geometry EXCEPT !.type = "ELLIPSOID", !.ellipsoid = Some([radii |-> sz])] :
            sz \in {<<Num(1), Num(2), Num(3)>>}}
    \cup {[Geometry EXCEPT !.type = "PLANE", !.plane = Some([size |-> sz])] :
            sz \in Sizes2}
    \cup {[Geometry EXCEPT !.type = "SPHERE", !.sphere = Some([radius |-> sz[1]])] :
            sz \in Sizes1}
    \cup {[Geometry EXCEPT !.type = "MESH", !.mesh = Some([uri |-> "mesh.dae"])]}
    \cup {[Geometry EXCEPT !.type = "HEIGHTMAP"], Geometry}

Poses == { [pos |-> <<Num(1), Num(2), Num(3)>>, rot |-> <<6, 4, 3>>] }

GeomNames == {"c1"}

\* the bodies handed to add_geometry: a new body, or one holding a geom
Bodies ==
    { <<>>,
      <<[NewGeom("c0", <<Num(0), Num(0), Num(0)>>, <<Num(0), Num(0), Num(0)>>)
            EXCEPT !.type = Some("sphere"), !.size = <<Num(1)>>,
                   !.group = Some(COLLISION_GEOM_GROUP)]>> }

(***************************************************************************)
(* SpecShape: calls of the shape conversions.                              *)
(***************************************************************************)
CallMjcfGeomToSdf ==
    \E geom \in MjcfGeoms :
        /\ call' = Called("mjcf_geom_to_sdf", geom, None, <<>>, mjcf_geom_to_sdf(geom))
        /\ UNCHANGED <<VISUAL_NUMBER, COLLISION_NUMBER, run, emitted, world, mjcf_body>>

CallAddGeometry ==
    \E b \in Bodies, name \in GeomNames, pose \in Poses, sdf_geom \in SdfGeoms \cup {None} :
        LET r == add_geometry(b, name, pose, sdf_geom)
        IN /\ mjcf_body' = r.body
           /\ call' = Called("add_geometry", sdf_geom, None, b, r.outcome)
           /\ UNCHANGED <<VISUAL_NUMBER, COLLISION_NUMBER, run, emitted, world>>

CallAddCollision ==
    \E b \in Bodies, name \in GeomNames, pose \in Poses, sdf_geom \in SdfGeoms \cup {None} :
        LET col == [name |-> name, semantic_pose |-> [raw_pose |-> pose],
                    geometry |-> sdf_geom]
            r == add_collision(b, col)
        IN /\ mjcf_body' = r.body
           /\ call' = Called("add_collision", sdf_geom, None, b, r.outcome)
           /\ UNCHANGED <<VISUAL_NUMBER, COLLISION_NUMBER, run, emitted, world>>

\* the geometry returned by mjcf_geom_to_sdf is handed to add_geometry
RoundTripToMjcf ==
    \E b \in Bodies, name \in GeomNames, pose \in Poses :
        /\ call.op = "mjcf_geom_to_sdf"
        /\ ~call.raised
        /\ LET r == add_geometry(b, name, pose, call.ret)
           IN /\ mjcf_body' = r.body
              /\ call' = Called("add_geometry", call.ret, Some(call.arg), b, r.outcome)
        /\ UNCHANGED <<VISUAL_NUMBER, COLLISION_NUMBER, run, emitted, world>>

\* the geom returned by add_geometry is handed to mjcf_geom_to_sdf
RoundTripToSdf ==
    /\ call.op = "add_geometry"
    /\ ~call.raised
    /\ call.ret # None
    /\ call' = Called("mjcf_geom_to_sdf", call.ret, Some(call.arg), <<>>,
                      mjcf_geom_to_sdf(call.ret))
    /\ UNCHANGED <<VISUAL_NUMBER, COLLISION_NUMBER, run, emitted, world, mjcf_body>>

NextShape ==
    \/ CallMjcfGeomToSdf
    \/ CallAddGeometry
    \/ CallAddCollision
    \/ RoundTripToMjcf
    \/ RoundTripToSdf

SpecShape == Init /\ [][NextShape]_vars

(***************************************************************************)
(* Spec: calls of mjcf_worldbody_to_sdf, each on a new sdf.World; one call *)
(* is one conversion run.  The trees have up to three bodies b1, b2, b3,   *)
(* numbered in document order, in every shape.                             *)
(***************************************************************************)
\* the calls of mjcf_worldbody_to_sdf in one process
MaxConversions == 1

VisualGeom(name, type) ==
    [Geom(name, Some(type), <<Num(1), Num(1), Num(1)>>, None)
        EXCEPT !.group = Some(VISUAL_GEOM_GROUP)]

CollisionGeom(name, type) ==
    [Geom(name, Some(type), <<Num(1), Num(1), Num(1)>>, None)
        EXCEPT !.group = Some(COLLISION_GEOM_GROUP)]

\* rigid: no joint element; free: a freejoint; jointed: a hinge and a slide;
\* meshed: no joint element and a mesh geom
BodyKinds == {"rigid", "free", "jointed", "meshed"}

Body(name, kind, children) ==
    [name |-> name,
     joint |-> IF kind = "jointed"
               THEN <<[name |-> name \o "_hinge", type |-> "hinge"],
                      [name |-> name \o "_slide", type |-> "slide"]>>
               ELSE <<>>,
     freejoint |-> IF kind = "free" THEN Some([name |-> name \o "_free"]) ELSE None,
     geom |-> CASE kind = "rigid" -> <<VisualGeom(None, "box")>>
                [] kind = "free" -> <<CollisionGeom(Some(name \o "_ball"), "sphere")>>
                [] kind = "jointed" -> <<CollisionGeom(None, "box"),
                                         VisualGeom(None, "sphere"),
                                         VisualGeom(Some(name \o "_skin"), "box")>>
                [] kind = "meshed" -> <<CollisionGeom(None, "mesh")>>,
     camera |-> IF kind = "jointed" THEN <<[name |-> name \o "_cam"]>> ELSE <<>>,
     body |-> children]

SmallForests == {<<>>, <<Body("b1", "rigid", <<>>)>>}

Forests ==
    {<<>>}
    \cup {<<Body("b1", k, <<>>)>> : k \in BodyKinds}
    \cup {<<Body("b1", k[1], <<>>), Body("b2", k[2], <<>>)>> :
            k \in BodyKinds \X BodyKinds}
    \cup {<<Body("b1", k[1], <<Body("b2", k[2], <<>>)>>)>> :
            k \in BodyKinds \X BodyKinds}
    \cup {<<Body("b1", k[1], <<>>), Body("b2", k[2], <<>>), Body("b3", k[3], <<>>)>> :
            k \in BodyKinds \X BodyKinds \X BodyKinds}
    \cup {<<Body("b1", k[1], <<Body("b2", k[2], <<>>)>>), Body("b3", k[3], <<>>)>> :
            k \in BodyKinds \X BodyKinds \X BodyKinds}
    \cup {<<Body("b1", k[1], <<>>), Body("b2", k[2], <<Body("b3", k[3], <<>>)>>)>> :
            k \in BodyKinds \X BodyKinds \X BodyKinds}
    \cup {<<Body("b1", k[1], <<Body("b2", k[2], <<>>), Body("b3", k[3], <<>>)>>)>> :
            k \in BodyKinds \X BodyKinds \X BodyKinds}
    \cup {<<Body("b1", k[1], <<Body("b2", k[2], <<Body("b3", k[3], <<>>)>>)>>)>> :
            k \in BodyKinds \X BodyKinds \X BodyKinds}

ModelNames == {None, Some("robot"), Some("static")}

WorldGeoms ==
    { <<>>,
      <<CollisionGeom(Some("static"), "plane")>>,
      <<VisualGeom(None, "plane"), CollisionGeom(Some("static"), "plane"),
        CollisionGeom(Some("static_0"), "box")>> }

\* the rest of the source: lights, worldbody cameras, the option element
\* and the export_world_plugins argument
Settings ==
    { [light |-> <<>>, camera |-> <<>>, option |-> None, export_world_plugins |-> FALSE],
      [light |-> <<[name |-> "sun"]>>, camera |-> <<[name |-> "fixed"]>>,
       option |-> Some([flag |-> [gravity |-> "disable"],
                        gravity |-> Some(<<Num(0), Num(0), Num(-10)>>),
                        magnetic |-> None, wind |-> None]),
       export_world_plugins |-> TRUE],
      [light |-> <<>>, camera |-> <<>>,
       option |-> Some([flag |-> [gravity |-> "enable"],
                        gravity |-> Some(<<Num(0), Num(0), Num(-10)>>),
                        magnetic |-> Some(<<Num(0), Num(1), Num(0)>>),
                        wind |-> Some(<<Num(1), Num(0), Num(0)>>)]),
       export_world_plugins |-> FALSE],
      [light |-> <<>>, camera |-> <<>>,
       option |-> Some([flag |-> [gravity |-> "enable"], gravity |-> None,
                        magnetic |-> None, wind |-> None]),
       export_world_plugins |-> FALSE] }

\* an mjcf.RootElement and the flag
Conversion(model, geoms, setting, forest) ==
    [mjcf_root |->
        [model |-> model,
         worldbody |-> [name |-> "world", geom |-> geoms, light |-> setting.light,
                        camera |-> setting.camera, body |-> forest],
         option |-> setting.option],
     export_world_plugins |-> setting.export_world_plugins]

Conversions ==
    {Conversion(Some("robot"), <<>>, CHOOSE st \in Settings : st.option = None, f) :
        f \in Forests}
    \cup {Conversion(t[1], t[2], t[3], t[4]) :
            t \in ModelNames \X WorldGeoms \X Settings \X SmallForests}

CallMjcfWorldbodyToSdf ==
    \E c \in Conversions :
        /\ run < MaxConversions
        /\ \E r \in {mjcf_worldbody_to_sdf(c.mjcf_root, World, c.export_world_plugins,
                                           VISUAL_NUMBER, COLLISION_NUMBER)} :
              /\ world' = r.world
              /\ VISUAL_NUMBER' = r.walked.VISUAL_NUMBER
              /\ COLLISION_NUMBER' = r.walked.COLLISION_NUMBER
              /\ emitted' = r.walked.names
              /\ call' = Called("mjcf_worldbody_to_sdf", c, None, <<>>, r.walked.outcome)
        /\ run' = run + 1
        /\ UNCHANGED mjcf_body

Next == CallMjcfWorldbodyToSdf

Spec == Init /\ [][Next]_vars

(***************************************************************************)
(* SpecGeom: calls of mjcf_visual_to_sdf and mjcf_collision_to_sdf by a    *)
(* caller that converts one tree after the other in the same process.  The *)
(* globals are set when the module is loaded (Init) and by these calls     *)
(* only.  emitted lists, for the current run, the name set by each call.   *)
(***************************************************************************)
\* the conversion runs of one process, and the calls of one run
MaxRuns == 2

MaxCalls == 3

NamedGeoms ==
    {Geom(n, t, <<Num(1), Num(1), Num(1)>>, None) :
        n \in {None, Some("a")}, t \in {Some("box"), Some("mesh")}}

Emitted(role, geom, name, raised) ==
    [role |-> role, declared |-> geom.name, name |-> name, raised |-> raised]

\* the caller starts to convert the next tree: nothing resets the globals
BeginRun ==
    /\ run < MaxRuns
    /\ run' = run + 1
    /\ emitted' = <<>>
    /\ call' = NoCall
    /\ UNCHANGED <<VISUAL_NUMBER, COLLISION_NUMBER, world, mjcf_body>>

CallMjcfVisualToSdf ==
    \E geom \in NamedGeoms :
        /\ run >= 1
        /\ Len(emitted) < MaxCalls
        /\ LET r == mjcf_visual_to_sdf(geom, VISUAL_NUMBER)
           IN /\ VISUAL_NUMBER' = r.VISUAL_NUMBER
              /\ emitted' = Append(emitted,
                                   Emitted("visual", geom, r.name, r.outcome.raised))
              /\ call' = Called("mjcf_visual_to_sdf", geom, None, <<>>, r.outcome)
        /\ UNCHANGED <<COLLISION_NUMBER, run, world, mjcf_body>>

CallMjcfCollisionToSdf ==
    \E geom \in NamedGeoms :
        /\ run >= 1
        /\ Len(emitted) < MaxCalls
        /\ LET r == mjcf_collision_to_sdf(geom, COLLISION_NUMBER)
           IN /\ COLLISION_NUMBER' = r.COLLISION_NUMBER
              /\ emitted' = Append(emitted,
                                   Emitted("collision", geom, r.name, r.outcome.raised))
              /\ call' = Called("mjcf_collision_to_sdf", geom, None, <<>>, r.outcome)
        /\ UNCHANGED <<VISUAL_NUMBER, run, world, mjcf_body>>

NextGeom ==
    \/ BeginRun
    \/ CallMjcfVisualToSdf
    \/ CallMjcfCollisionToSdf

SpecGeom == Init /\ [][NextGeom]_vars

(***************************************************************************)
(* Properties of the names (SpecGeom).                                     *)
(***************************************************************************)
Anonymous(role) ==
    {i \in 1..Len(emitted) : emitted[i].role = role /\ emitted[i].declared = None}

AnonymousPrefix(role) ==
    IF role = "visual" THEN "unnamed_visual_" ELSE "unnamed_collision_"

NamedPrefix(role) == IF role = "visual" THEN "visual_" ELSE "collision_"

Counter(role) == IF role = "visual" THEN VISUAL_NUMBER ELSE COLLISION_NUMBER

\* the number whose decimal digits end the anonymous name of emitted[i]: the
\* numbers given so far are below the counter
SuffixOf(i) ==
    {k \in 0..Counter(emitted[i].role) :
        emitted[i].name = AnonymousPrefix(emitted[i].role) \o str(k)}

\* C1: the counters start fresh for every run.  In a run that converted
\* exactly one anonymous visual, that visual is named "unnamed_visual_0",
\* whatever earlier runs converted; likewise "unnamed_collision_0".
C1_FreshCounters ==
    \A role \in {"visual", "collision"} :
        Cardinality(Anonymous(role)) = 1
            => \A i \in Anonymous(role) :
                   emitted[i].name = AnonymousPrefix(role) \o "0"

\* C2: within one run, whatever the calls and whether or not their shape
\* conversion raises, the anonymous names of a role end in numbers that
\* grow strictly in call order (so no two are equal); a geom that declares a
\* name n is named "visual_" + n or "collision_" + n, and its call leaves
\* both counters as they are.
C2_NamesWithinRun ==
    /\ [](\A i \in 1..Len(emitted) :
            IF emitted[i].declared = None
            THEN /\ Cardinality(SuffixOf(i)) = 1
                 /\ \A j \in 1..(i - 1) :
                        (emitted[j].role = emitted[i].role /\ emitted[j].declared = None)
                            => /\ emitted[j].name # emitted[i].name
                               /\ \A kj \in SuffixOf(j), ki \in SuffixOf(i) : kj < ki
            ELSE emitted[i].name
                    = NamedPrefix(emitted[i].role) \o The(emitted[i].declared))
    /\ [][(call'.op \in {"mjcf_visual_to_sdf", "mjcf_collision_to_sdf"}
             /\ call'.arg.name # None)
            => (VISUAL_NUMBER' = VISUAL_NUMBER /\ COLLISION_NUMBER' = COLLISION_NUMBER)]_vars

C2_Witness ==
    /\ Len(emitted) = 3
    /\ emitted[1].role = "visual" /\ emitted[1].declared = None /\ emitted[1].raised
    /\ emitted[2].role = "visual" /\ emitted[2].declared # None
    /\ emitted[3].role = "visual" /\ emitted[3].declared = None
    /\ emitted[1].name = "unnamed_visual_0"
    /\ emitted[3].name = "unnamed_visual_1"

(***************************************************************************)
(* Properties of the shape conversions (SpecShape).                        *)
(***************************************************************************)
SupportedTypes == {"box", "capsule", "cylinder", "ellipsoid", "sphere", "plane"}

AddsGeom == call.op \in {"add_geometry", "add_collision"}

UnsupportedShape ==
    call.raised /\ call.error \in {"RuntimeError: Meshes are not yet supported",
                                   "RuntimeError: Encountered unsupported shape type"}

\* y = 2 * x, computed on the integer counts of a common unit
IsDouble(y, x) ==
    LET e0 == Min(x.e, y.e)
    IN Units(y, e0) = 2 * Units(x, e0)

\* C4: a mesh never converts.  add_geometry and add_collision raise the
\* unsupported-shape error when the geometry holds a mesh shape, and
\* mjcf_geom_to_sdf raises it when geom.type is "mesh" or any other value
\* outside box, capsule, cylinder, ellipsoid, sphere, plane; no geometry is
\* returned in either case.
C4_MeshAlwaysFails ==
    /\ (AddsGeom /\ call.arg # None /\ call.arg.mesh # None)
          => (UnsupportedShape /\ call.ret = None)
    /\ (call.op = "mjcf_geom_to_sdf"
          /\ call.arg.type \notin {Some(t) : t \in SupportedTypes})
          => (UnsupportedShape /\ call.ret = None)

C4_Witness ==
    /\ call.op = "add_geometry"
    /\ call.arg # None
    /\ call.arg.mesh # None
    /\ call.raised

\* C5: a geometry attachment is all or nothing.  When add_geometry or
\* add_collision raises the unsupported-shape error, the body holds the
\* geoms it held before the call, and no geom without a type is attached.
C5_AllOrNothing ==
    (AddsGeom /\ UnsupportedShape)
        => /\ mjcf_body = call.before
           /\ \A i \in 1..Len(mjcf_body) : mjcf_body[i].type # None

\* C6: an attachment without a geometry is left out, without an error.
\* add_collision on a collision whose geometry is None adds no geom and
\* returns; mjcf_visual_to_sdf and mjcf_collision_to_sdf return None, not a
\* Visual or Collision, when the geometry conversion returns None.
C6_MissingGeometryOmitted ==
    /\ (call.op = "add_collision" /\ call.arg = None)
          => (~call.raised /\ mjcf_body = call.before)
    /\ (call.op \in {"mjcf_visual_to_sdf", "mjcf_collision_to_sdf"} /\ ~call.raised
          /\ mjcf_geom_to_sdf(call.arg).ret = None)
          => call.ret = None

\* C7: the box conversions are inverses of each other.  An MJCF box of
\* half-extents h, through mjcf_geom_to_sdf (each component doubled) and
\* back through add_geometry, is a geom of type "box" and size h; an
\* SDFormat box of size f, through add_geometry (each component halved) and
\* back through mjcf_geom_to_sdf, is a box of size f.
C7_BoxRoundTrip ==
    /\ (call.op = "add_geometry" /\ call.from # None
          /\ The(call.from).type = Some("box"))
          => /\ ~call.raised
             /\ call.arg.box # None
             /\ \A i \in 1..3 :
                    IsDouble(The(call.arg.box).size[i], The(call.from).size[i])
             /\ call.ret.type = Some("box")
             /\ call.ret.size = The(call.from).size
    /\ (call.op = "mjcf_geom_to_sdf" /\ call.from # None
          /\ The(call.from) # None /\ The(call.from).box # None)
          => /\ ~call.raised
             /\ call.arg.type = Some("box")
             /\ \A i \in 1..3 :
                    IsDouble(The(The(call.from).box).size[i], call.arg.size[i])
             /\ call.ret.type = "BOX"
             /\ call.ret.box = The(call.from).box

C7_Witness ==
    /\ call.op = "mjcf_geom_to_sdf"
    /\ call.from # None
    /\ The(call.from) # None
    /\ The(call.from).box = Some([size |-> <<Norm(1, -1), Norm(3, -2), Num(5)>>])
    /\ call.arg.size = <<Norm(1, -2), Norm(3, -3), Norm(5, -1)>>
    /\ ~call.raised

\* the squared distance between the endpoints of fromto, as an integer count
\* of units of 1/4 (the coordinates are multiples of 1/2)
FromtoSquared(fromto) ==
    LET c(i) == Units(fromto[i], -1)
    IN (c(1) - c(4)) * (c(1) - c(4)) + (c(2) - c(5)) * (c(2) - c(5))
       + (c(3) - c(6)) * (c(3) - c(6))

\* len is the number nearest to the square root of d4 / 4, at the
\* resolution of a rounded result
IsRootOf(len, d4) ==
    LET r == Units(len, -SqrtFracBits)
        n4 == d4 * 4 ^ SqrtFracBits
    IN /\ len.e >= -SqrtFracBits
       /\ r >= 0
       /\ n4 <= (2 * r + 1) * (2 * r + 1)
       /\ (r = 0 \/ (2 * r - 1) * (2 * r - 1) <= n4)

\* C8: for a capsule or cylinder geom, mjcf_geom_to_sdf passes size[0] on as
\* the radius; the length is the Euclidean distance between fromto[0..2]
\* and fromto[3..5] when fromto is given, whatever size[1] is, and
\* 2 * size[1] when it is not.  Both types follow the same rule.
C8_SegmentLength ==
    (call.op = "mjcf_geom_to_sdf"
       /\ call.arg.type \in {Some("capsule"), Some("cylinder")})
        => /\ ~call.raised
           /\ LET geom == call.arg
                  member == IF geom.type = Some("capsule")
                            THEN call.ret.capsule ELSE call.ret.cylinder
                  other == IF geom.type = Some("capsule")
                           THEN call.ret.cylinder ELSE call.ret.capsule
              IN /\ member # None
                 /\ other = None
                 /\ The(member).radius = geom.size[1]
                 /\ IF geom.fromto = None
                    THEN IsDouble(The(member).length, geom.size[2])
                    ELSE IsRootOf(The(member).length, FromtoSquared(The(geom.fromto)))

C8_Witness ==
    /\ call.op = "mjcf_geom_to_sdf"
    /\ call.arg.type = Some("cylinder")
    /\ call.arg.size = <<Norm(3, -2)>>
    /\ call.arg.fromto
         = Some(<<Norm(3, -1), Num(-2), Norm(-1, -1), Num(3), Num(4), Num(0)>>)
    /\ ~call.raised
    /\ The(call.ret.cylinder).length = Norm(25, -2)

(***************************************************************************)
(* Properties of the tree walk (Spec).                                     *)
(***************************************************************************)
RECURSIVE Nodes(_, _, _)
\* the bodies of a forest, each with the name of the body it is a child of
\* (None under the worldbody) and its path: the child indices from the
\* worldbody down to it
Nodes(forest, parent, prefix) ==
    UNION { {[body |-> forest[i], parent |-> parent, path |-> Append(prefix, i)]}
            \cup Nodes(forest[i].body, Some(forest[i].name), Append(prefix, i)) :
            i \in 1..Len(forest) }

\* the call returned: the world holds what it emitted
Converted == call.op = "mjcf_worldbody_to_sdf" /\ ~call.raised

SourceBodies == Nodes(call.arg.mjcf_root.worldbody.body, None, <<>>)

Articulated == world.models[Len(world.models)]

\* the positions of the joints whose child is the body called name
JointsOf(name) ==
    {i \in 1..Len(Articulated.joints) : Articulated.joints[i].child = name}

Synthesized(name) ==
    {i \in JointsOf(name) : Articulated.joints[i].source = None}

\* C3: a body without a joint element and without a freejoint gets one
\* synthesized Fixed joint to its parent and no other joint; a body with a
\* joint element or a freejoint gets no synthesized joint, and a body with
\* only a freejoint gets no joint at all.
C3_FixedJointSynthesis ==
    Converted =>
        \A n \in SourceBodies :
            IF Len(n.body.joint) = 0 /\ n.body.freejoint = None
            THEN /\ Cardinality(JointsOf(n.body.name)) = 1
                 /\ \A i \in JointsOf(n.body.name) :
                        /\ Articulated.joints[i].source = None
                        /\ Articulated.joints[i].type = "FIXED"
                        /\ Articulated.joints[i].parent = n.parent
            ELSE /\ Synthesized(n.body.name) = {}
                 /\ \A i \in JointsOf(n.body.name) : Articulated.joints[i].type # "FIXED"
                 /\ Len(n.body.joint) = 0 => JointsOf(n.body.name) = {}

C3_Witness ==
    /\ Converted
    /\ \E n \in SourceBodies :
          /\ n.parent = Some("b1")
          /\ Len(n.body.joint) = 0 /\ n.body.freejoint = None
          /\ Cardinality(JointsOf(n.body.name)) = 1
    /\ \E n \in SourceBodies : n.body.freejoint # None
    /\ \E n \in SourceBodies : Len(n.body.joint) = 2

\* C9: the worldbody goes into a static model of its own.  After the call
\* the world holds two models: first a static one with one link, the
\* worldbody's, and no joint; second the articulated model, which does not
\* hold the worldbody's link.  Two child bodies without joints make two
\* links and two synthesized Fixed joints in the articulated model.
C9_StaticContainer ==
    Converted =>
        LET worldbody == call.arg.mjcf_root.worldbody
        IN /\ Len(world.models) = 2
           /\ world.models[1].static
           /\ Len(world.models[1].links) = 1
           /\ world.models[1].links[1].name = worldbody.name
           /\ Len(world.models[1].links[1].visuals)
                + Len(world.models[1].links[1].collisions) = Len(worldbody.geom)
           /\ world.models[1].joints = <<>>
           /\ ~world.models[2].static
           /\ \A i \in 1..Len(world.models[2].links) :
                  /\ world.models[2].links[i] # world.models[1].links[1]
                  /\ world.models[2].links[i].name # worldbody.name
           /\ (/\ Len(worldbody.body) = 2
               /\ \A i \in 1..2 : /\ worldbody.body[i].joint = <<>>
                                  /\ worldbody.body[i].freejoint = None
                                  /\ worldbody.body[i].body = <<>>)
                => /\ Len(world.models[2].links) = 2
                   /\ Len(world.models[2].joints) = 2
                   /\ \A i \in 1..2 : /\ world.models[2].joints[i].type = "FIXED"
                                      /\ world.models[2].joints[i].source = None

C9_Witness ==
    /\ Converted
    /\ Len(call.arg.mjcf_root.worldbody.body) = 2
    /\ \A i \in 1..2 : /\ call.arg.mjcf_root.worldbody.body[i].joint = <<>>
                       /\ call.arg.mjcf_root.worldbody.body[i].freejoint = None
    /\ Len(world.models) = 2
    /\ world.models[1].static
    /\ Len(world.models[2].links) = 2
    /\ Len(world.models[2].joints) = 2

\* p comes before q in document order: p is a proper prefix of q (an
\* ancestor), or is smaller where they first differ (in an earlier subtree)
PathBefore(p, q) ==
    \E k \in 1..Len(q) :
        /\ \A m \in 1..(k - 1) : m <= Len(p) /\ p[m] = q[m]
        /\ (k = Len(p) + 1 \/ (k <= Len(p) /\ p[k] < q[k]))

PathOf(name) == (CHOOSE n \in SourceBodies : n.body.name = name).path

\* the joints a body is to get: its declared ones in their order, or the
\* synthesized one
JointSources(b) ==
    IF Len(b.joint) = 0
    THEN IF b.freejoint = None THEN <<None>> ELSE <<>>
    ELSE [i \in 1..Len(b.joint) |-> Some(b.joint[i].name)]

\* C10: links and joints are emitted in depth-first pre-order.  The links
\* of the articulated model are the bodies below the worldbody, each before
\* its descendants and these before its next sibling; the joints are those
\* of each body (the declared ones in their order, or the synthesized
\* one), body after body in the same order.
C10_PreorderEmission ==
    Converted =>
        LET links == Articulated.links
            joints == Articulated.joints
        IN /\ Len(links) = Cardinality(SourceBodies)
           /\ \A n \in SourceBodies : \E i \in 1..Len(links) : links[i].name = n.body.name
           /\ \A i, j \in 1..Len(links) :
                  i < j => PathBefore(PathOf(links[i].name), PathOf(links[j].name))
           /\ \A n \in SourceBodies :
                  LET OfBody(jt) == jt.child = n.body.name
                      mine == SelectSeq(joints, OfBody)
                  IN [i \in 1..Len(mine) |-> mine[i].source] = JointSources(n.body)
           /\ \A i, j \in 1..Len(joints) :
                  (i < j /\ joints[i].child # joints[j].child)
                      => PathBefore(PathOf(joints[i].child), PathOf(joints[j].child))

C10_Witness ==
    /\ Converted
    /\ Len(call.arg.mjcf_root.worldbody.body) = 2
    /\ Len(call.arg.mjcf_root.worldbody.body[1].body) = 1
    /\ [i \in 1..3 |-> Articulated.links[i].name] = <<"b1", "b2", "b3">>
    /\ [i \in 1..Len(Articulated.joints) |-> Articulated.joints[i].source]
         = <<Some("b1_hinge"), Some("b1_slide"), None, Some("b3_hinge"), Some("b3_slide")>>

\* C11: a joint connects a body to its immediate parent.  Every joint of
\* the articulated model, declared or synthesized, has as child a body of
\* the source and as parent the name of the body that body is a child of,
\* not a more distant ancestor and not a sibling; for a body directly
\* below the worldbody the parent is None, not the name of the worldbody's
\* link.  Every declared joint and every synthesized one is such a joint.
C11_NearestParent ==
    Converted =>
        /\ \A i \in 1..Len(Articulated.joints) :
               \E n \in SourceBodies :
                   /\ Articulated.joints[i].child = n.body.name
                   /\ Articulated.joints[i].parent = n.parent
                   /\ Len(n.path) = 1 =>
                          /\ Articulated.joints[i].parent = None
                          /\ Articulated.joints[i].parent
                                 # Some(world.models[1].links[1].name)
        /\ \A n \in SourceBodies :
               /\ Cardinality(JointsOf(n.body.name)) = Len(JointSources(n.body))
               /\ \A i \in JointsOf(n.body.name) :
                      Articulated.joints[i].parent = n.parent

C11_Witness ==
    /\ Converted
    /\ \E n \in SourceBodies :
          /\ Len(n.path) = 3
          /\ n.body.name = "b3"
          /\ n.parent = Some("b2")
          /\ Len(n.body.joint) = 2
    /\ \E n \in SourceBodies :
          /\ n.body.name = "b2" /\ n.parent = Some("b1") /\ NeedsFixedJoint(n.body)
    /\ \E i, j, k \in 1..Len(Articulated.joints) :
          /\ Articulated.joints[i].child = "b3"
          /\ Articulated.joints[i].parent = Some("b2")
          /\ Articulated.joints[i].source = Some("b3_slide")
          /\ Articulated.joints[j].child = "b2"
          /\ Articulated.joints[j].parent = Some("b1")
          /\ Articulated.joints[j].source = None
          /\ Articulated.joints[k].child = "b1"
          /\ Articulated.joints[k].parent = None

\* C12: the two models added to the world have distinct names.  After the
\* call the static model (named by find_unique_name from "static" and the
\* worldbody's geoms) and the articulated model (named mjcf_root.model, or
\* "model" when that is None) are called differently, whatever the
\* declared model name is, "static" included.
C12_DistinctModelNames ==
    Converted => world.models[1].name # world.models[2].name

====
